---- MODULE Spec2Model ----
(***************************************************************************)
(* State-machine model of the ambulance-dispatch backend: the User,        *)
(* Driver, Medic, Ambulance and Incident collections, the bearer           *)
(* credentials issued by login, and one action per route handler.          *)
(* Absent request fields (JavaScript undefined) are "" for strings, 0 for  *)
(* object ids and <<>> for arrays; all of them are falsy in the handlers.  *)
(***************************************************************************)
EXTENDS Integers, Sequences, FiniteSets, TLC

(* ---------------------------- bounds ----------------------------------- *)
MaxUsers == 2
MaxDrivers == 2
MaxMedics == 2
MaxAmbulances == 1
MaxIncidents == 1
MaxTokens == 2

(* ---------------------------- domains ---------------------------------- *)
\* src/models/User.js:5 -- the role enum of the User schema
Roles == {"admin", "dispatcher", "user", "driver", "medic"}

\* src/config/db.js:60 -- the status enum of the Incident schema
IncidentStatuses == {"pending", "dispatched", "resolved"}

\* src/models/Ambulance.js:5 -- the status enum of the Ambulance schema
AmbulanceStatuses == {"available", "on-duty", "maintenance"}

UserIds == 1..MaxUsers
DriverIds == 1..MaxDrivers
MedicIds == 1..MaxMedics
AmbulanceIds == 1..MaxAmbulances
IncidentIds == 1..MaxIncidents

\* the request carries no Authorization header
NoCred == [userId |-> 0, role |-> ""]
\* a credential jwt.verify rejects (bad signature, malformed)
BadCred == [userId |-> 0, role |-> "forged"]

EmptyBody ==
    [name |-> "", role |-> "", email |-> "", password |-> "",
     phone_number_1 |-> "", phone_number_2 |-> "",
     user_id |-> 0, license_number |-> "", assigned_ambulance |-> 0,
     specialty |-> "", status |-> "",
     coordinates |-> <<>>, incident_type |-> "", priority |-> 0,
     ambulanceId |-> 0, license_plate |-> "", hospital_name |-> ""]

VARIABLES
    users,       \* User collection: id -> document
    drivers,     \* Driver collection: id -> document
    medics,      \* Medic collection: id -> document
    ambulances,  \* Ambulance collection: id -> document
    incidents,   \* Incident collection: id -> document
    nextId,      \* next fresh ObjectId of each collection
    tokens,      \* credentials signed by login and not yet expired
    driverRev,   \* deployed revision of driverRoutes.js and its Driver schema
    req,         \* the request handled last
    resp,        \* the response sent to it
    inflight,    \* per worker: the request it is in the middle of handling
    held         \* history: per Incident, the statuses it has held, in the
                 \* order in which each was first held

vars == <<users, drivers, medics, ambulances, incidents, nextId, tokens,
          driverRev, req, resp, inflight, held>>

db == <<users, drivers, medics, ambulances, incidents, nextId>>

(* ---------------------------- helpers ---------------------------------- *)
Abs(x) == IF x < 0 THEN -x ELSE x

\* f without key k
Remove(f, k) == [x \in (DOMAIN f) \ {k} |-> f[x]]

\* f with key k bound to v
Put(f, k, v) == [x \in (DOMAIN f) \cup {k} |-> IF x = k THEN v ELSE f[x]]

Request(op, cred, id, body) ==
    [op |-> op, cred |-> cred, id |-> id, body |-> body]

\* the event-loop tasks that can be in the middle of a handler at once
Workers == {1, 2}

\* a worker that is not handling a request
Idle == [pc |-> "idle", op |-> "", cred |-> NoCred, id |-> 0, body |-> EmptyBody,
         status |-> 0]

\* the history after a step that leaves the Incident collection as inc: a
\* status is appended the first time the Incident holds it
HeldAfter(inc) ==
    [i \in DOMAIN inc |->
        LET before == IF i \in DOMAIN held THEN held[i] ELSE <<>>
        IN IF \E k \in 1..Len(before) : before[k] = inc[i].status
           THEN before
           ELSE Append(before, inc[i].status)]

\* a step that records the status history, and one that does not
Recorded(A) == A /\ held' = HeldAfter(incidents')
Unrecorded(A) == A /\ UNCHANGED held

\* res.status(st).json({message: m, ...}); token is NoCred and id is 0
\* unless the handler returns a credential or a created document
Reply(st, m) == [status |-> st, msg |-> m, token |-> NoCred, id |-> 0]

\* bcrypt.hash(password, salt): the stored value is never the plaintext
Hash(pw) == "$2a$10$" \o pw

\* bcrypt.compare(password, stored)
Compare(pw, stored) == stored = Hash(pw)

(* ---------------------------- middleware ------------------------------- *)
\* jwt.verify(token, secret): signed by this server and not expired
JwtVerify(cred) == cred \in tokens

\* verifyToken: status 0 stands for next()
VerifyToken(cred) ==
    IF cred = NoCred THEN Reply(401, "Access denied. No token provided.")
    ELSE IF ~JwtVerify(cred) THEN Reply(401, "Invalid or expired token")
    ELSE Reply(0, "")

\* verifyAdmin deciding on the role the credential embeds
VerifyAdmin_FromClaim(cred) ==
    IF cred = NoCred THEN Reply(401, "Access denied. No token provided.")
    ELSE IF ~JwtVerify(cred) THEN Reply(401, "Invalid or expired token")
    ELSE IF cred.userId \notin DOMAIN users
         THEN Reply(404, "User not found. Invalid token.")
    ELSE IF cred.role # "admin"
         THEN Reply(403, "Access denied. Admins only.")
    ELSE Reply(0, "")

\* verifyAdmin replaced by verifyToken
VerifyAdmin_TokenOnly(cred) == VerifyToken(cred)

\* verifyAdmin: status 0 stands for next()
VerifyAdmin(cred) ==
    IF cred = NoCred THEN Reply(401, "Access denied. No token provided.")
    ELSE IF ~JwtVerify(cred) THEN Reply(401, "Invalid or expired token")
    ELSE IF cred.userId \notin DOMAIN users
         THEN Reply(404, "User not found. Invalid token.")
    ELSE IF users[cred.userId].role # "admin"
         THEN Reply(403, "Access denied. Admins only.")
    ELSE Reply(0, "")

(* ---------------------------- initial state ---------------------------- *)
Init ==
    /\ users = <<>>
    /\ drivers = <<>>
    /\ medics = <<>>
    /\ ambulances = <<>>
    /\ incidents = <<>>
    /\ nextId = [user |-> 1, driver |-> 1, medic |-> 1, ambulance |-> 1,
                 incident |-> 1]
    /\ tokens = {}
    /\ driverRev \in {1, 3}
    /\ req = Request("", NoCred, 0, EmptyBody)
    /\ resp = Reply(0, "")
    /\ inflight = [w \in Workers |-> Idle]
    /\ held = <<>>

(* ---------------------------- user directory --------------------------- *)
\* User.findOne({email}) and its siblings: the ids of the matching documents
UsersWithEmail(e) == {u \in DOMAIN users : users[u].email = e}
UsersWithPhone1(p) == {u \in DOMAIN users : users[u].phone_number_1 = p}
UsersWithPhone2(p) == {u \in DOMAIN users : users[u].phone_number_2 = p}

\* register without the lookup of the secondary phone
RegisterConflict_NoSecondary(body) ==
    IF UsersWithEmail(body.email) # {} THEN "Email already in use"
    ELSE IF UsersWithPhone1(body.phone_number_1) # {}
         THEN "Primary phone number already in use"
    ELSE ""

\* the three uniqueness checks of register: the 400 message, "" when none hits
RegisterConflict(body) ==
    IF UsersWithEmail(body.email) # {} THEN "Email already in use"
    ELSE IF UsersWithPhone1(body.phone_number_1) # {}
         THEN "Primary phone number already in use"
    ELSE IF body.phone_number_2 # "" /\ UsersWithPhone2(body.phone_number_2) # {}
         THEN "Secondary phone number already in use"
    ELSE ""

\* schema validation of a User document on save()/runValidators
UserValid(u) ==
    /\ u.name # "" /\ u.email # "" /\ u.password # "" /\ u.phone_number_1 # ""
    /\ u.role \in Roles

\* the unique index on User.email, for a write of document u under id
EmailIndexOk(id, u) == \A o \in DOMAIN users : o # id => users[o].email # u.email

\* POST /users/register
Register(body) ==
    /\ nextId.user <= MaxUsers
    /\ req' = Request("register", NoCred, 0, body)
    /\ UNCHANGED <<drivers, medics, ambulances, incidents, tokens, driverRev, inflight, held>>
    /\ LET newUser == [name |-> body.name, role |-> body.role,
                       email |-> body.email, password |-> Hash(body.password),
                       phone_number_1 |-> body.phone_number_1,
                       phone_number_2 |-> body.phone_number_2]
       IN IF body.name = "" \/ body.role = "" \/ body.email = ""
             \/ body.password = "" \/ body.phone_number_1 = ""
          THEN /\ resp' = Reply(400, "All required fields must be filled")
               /\ UNCHANGED <<users, nextId>>
          ELSE IF RegisterConflict(body) # ""
          THEN /\ resp' = Reply(400, RegisterConflict(body))
               /\ UNCHANGED <<users, nextId>>
          ELSE IF ~(UserValid(newUser) /\ EmailIndexOk(nextId.user, newUser))
          THEN /\ resp' = Reply(500, "Server error")
               /\ UNCHANGED <<users, nextId>>
          ELSE /\ users' = Put(users, nextId.user, newUser)
               /\ nextId' = [nextId EXCEPT !.user = @ + 1]
               /\ resp' = [Reply(201, "User registered successfully")
                             EXCEPT !.id = nextId.user]

\* login without bcrypt.compare: a known email is enough
LoginUserId_EmailOnly(email, password) ==
    IF UsersWithEmail(email) = {} THEN 0
    ELSE CHOOSE x \in UsersWithEmail(email) : TRUE

\* the account login authenticates, 0 when the email is unknown or the
\* password does not match the stored hash
LoginUserId(email, password) ==
    IF UsersWithEmail(email) = {} THEN 0
    ELSE LET u == CHOOSE x \in UsersWithEmail(email) : TRUE
         IN IF Compare(password, users[u].password) THEN u ELSE 0

\* POST /users/login
Login(body) ==
    /\ req' = Request("login", NoCred, 0, body)
    /\ UNCHANGED <<db, driverRev, inflight, held>>
    /\ IF body.email = "" \/ body.password = ""
       THEN /\ resp' = Reply(400, "Email and password are required")
            /\ UNCHANGED tokens
       ELSE IF LoginUserId(body.email, body.password) = 0
       THEN /\ resp' = Reply(400, "Invalid email or password")
            /\ UNCHANGED tokens
       ELSE LET u == LoginUserId(body.email, body.password)
                t == [userId |-> u, role |-> users[u].role]
            IN /\ Cardinality(tokens \cup {t}) <= MaxTokens
               /\ tokens' = tokens \cup {t}
               /\ resp' = [Reply(200, "Login successful")
                             EXCEPT !.token = t, !.id = u]

\* the expiresIn of a credential elapses
ExpireToken(t) ==
    /\ t \in tokens
    /\ tokens' = tokens \ {t}
    /\ req' = Request("", NoCred, 0, EmptyBody)
    /\ resp' = Reply(0, "")
    /\ UNCHANGED <<db, driverRev, inflight, held>>

\* the assignments "if (field) user.field = field" of PUT /users/update
ApplySelfUpdate(u, body) ==
    [u EXCEPT
       !.name = IF body.name # "" THEN body.name ELSE @,
       !.email = IF body.email # "" THEN body.email ELSE @,
       !.role = IF body.role # "" THEN body.role ELSE @,
       !.phone_number_1 = IF body.phone_number_1 # "" THEN body.phone_number_1 ELSE @,
       !.phone_number_2 = IF body.phone_number_2 # "" THEN body.phone_number_2 ELSE @]

\* the uniqueness checks of PUT /users/update: the 400 message, "" when none hits
SelfUpdateConflict(u, body) ==
    IF body.email # "" /\ body.email # u.email /\ UsersWithEmail(body.email) # {}
    THEN "Email already in use."
    ELSE IF body.phone_number_1 # "" /\ body.phone_number_1 # u.phone_number_1
            /\ UsersWithPhone1(body.phone_number_1) # {}
    THEN "Phone number already in use."
    ELSE ""

\* PUT /users/update (verifyToken): the caller updates its own account
UpdateSelf(cred, body) ==
    /\ req' = Request("updateSelf", cred, 0, body)
    /\ UNCHANGED <<drivers, medics, ambulances, incidents, nextId, tokens, driverRev, inflight, held>>
    /\ IF VerifyToken(cred).status # 0
       THEN resp' = VerifyToken(cred) /\ UNCHANGED users
       ELSE IF body.name = "" /\ body.email = "" /\ body.phone_number_1 = ""
               /\ body.phone_number_2 = "" /\ body.role = ""
       THEN resp' = Reply(400, "Provide at least one field to update.") /\ UNCHANGED users
       ELSE IF cred.userId \notin DOMAIN users
       THEN resp' = Reply(404, "User not found.") /\ UNCHANGED users
       ELSE LET u == users[cred.userId]
                v == ApplySelfUpdate(u, body)
            IN IF SelfUpdateConflict(u, body) # ""
               THEN resp' = Reply(400, SelfUpdateConflict(u, body)) /\ UNCHANGED users
               ELSE IF ~(UserValid(v) /\ EmailIndexOk(cred.userId, v))
               THEN resp' = Reply(500, "Server error") /\ UNCHANGED users
               ELSE /\ users' = [users EXCEPT ![cred.userId] = v]
                    /\ resp' = [Reply(200, "User updated successfully.")
                                  EXCEPT !.id = cred.userId]

\* PUT /users/:id/role (verifyAdmin)
UpdateRole(cred, id, body) ==
    /\ req' = Request("updateRole", cred, id, body)
    /\ UNCHANGED <<drivers, medics, ambulances, incidents, nextId, tokens, driverRev, inflight, held>>
    /\ IF VerifyAdmin(cred).status # 0
       THEN resp' = VerifyAdmin(cred) /\ UNCHANGED users
       ELSE IF body.role = ""
       THEN resp' = Reply(400, "Role is required") /\ UNCHANGED users
       ELSE IF id \notin DOMAIN users
       THEN resp' = Reply(404, "User not found") /\ UNCHANGED users
       ELSE IF ~UserValid([users[id] EXCEPT !.role = body.role])
       THEN resp' = Reply(500, "Server error") /\ UNCHANGED users
       ELSE /\ users' = [users EXCEPT ![id].role = body.role]
            /\ resp' = [Reply(200, "User role updated successfully") EXCEPT !.id = id]

\* the $set of User.findByIdAndUpdate(id, req.body): every schema path the
\* body carries replaces the stored one, the password as sent
ApplyAdminUpdate(u, body) ==
    [u EXCEPT
       !.name = IF body.name # "" THEN body.name ELSE @,
       !.email = IF body.email # "" THEN body.email ELSE @,
       !.role = IF body.role # "" THEN body.role ELSE @,
       !.password = IF body.password # "" THEN body.password ELSE @,
       !.phone_number_1 = IF body.phone_number_1 # "" THEN body.phone_number_1 ELSE @,
       !.phone_number_2 = IF body.phone_number_2 # "" THEN body.phone_number_2 ELSE @]

\* PUT /users/:id (verifyAdmin)
UpdateUserAdmin(cred, id, body) ==
    /\ req' = Request("updateUser", cred, id, body)
    /\ UNCHANGED <<drivers, medics, ambulances, incidents, nextId, tokens, driverRev, inflight, held>>
    /\ IF VerifyAdmin(cred).status # 0
       THEN resp' = VerifyAdmin(cred) /\ UNCHANGED users
       ELSE IF body.role # "" /\ body.role \notin Roles
       THEN resp' = Reply(400, "Invalid role provided") /\ UNCHANGED users
       ELSE IF id \notin DOMAIN users
       THEN resp' = Reply(404, "User not found") /\ UNCHANGED users
       ELSE IF ~EmailIndexOk(id, ApplyAdminUpdate(users[id], body))
       THEN resp' = Reply(500, "Server error") /\ UNCHANGED users
       ELSE /\ users' = [users EXCEPT ![id] = ApplyAdminUpdate(users[id], body)]
            /\ resp' = [Reply(200, "User updated successfully") EXCEPT !.id = id]

\* a delete that also removes the role records of the user
DeleteUserById_Cascade(id) ==
    /\ UNCHANGED <<ambulances, incidents, nextId, tokens, driverRev, inflight, held>>
    /\ IF id \notin DOMAIN users
       THEN resp' = Reply(404, "User not found") /\ UNCHANGED <<users, drivers, medics>>
       ELSE /\ users' = Remove(users, id)
            /\ drivers' = [d \in {x \in DOMAIN drivers : drivers[x].user # id}
                             |-> drivers[d]]
            /\ medics' = [m \in {x \in DOMAIN medics : medics[x].user # id}
                            |-> medics[m]]
            /\ resp' = Reply(200, "User deleted successfully")

\* User.findByIdAndDelete(id): no other collection is touched
DeleteUserById(id) ==
    /\ UNCHANGED <<drivers, medics, ambulances, incidents, nextId, tokens, driverRev, inflight, held>>
    /\ IF id \notin DOMAIN users
       THEN resp' = Reply(404, "User not found") /\ UNCHANGED users
       ELSE /\ users' = Remove(users, id)
            /\ resp' = Reply(200, "User deleted successfully")

\* DELETE /users/:id as registered without any middleware
DeleteUserUnguarded(id) ==
    /\ req' = Request("deleteUserUnguarded", NoCred, id, EmptyBody)
    /\ DeleteUserById(id)

\* DELETE /users/:id (verifyAdmin)
DeleteUserAdmin(cred, id) ==
    /\ req' = Request("deleteUser", cred, id, EmptyBody)
    /\ IF VerifyAdmin(cred).status # 0
       THEN resp' = VerifyAdmin(cred) /\ UNCHANGED <<db, tokens, driverRev, inflight, held>>
       ELSE DeleteUserById(id)

(* ---------------------------- role assignment -------------------------- *)
\* Driver.findOne({user: user_id}): the ids of the matching documents
DriversOfUser(uid) == {d \in DOMAIN drivers : drivers[d].user = uid}

\* the unique indexes of the revision-1 Driver schema (user, license_number,
\* assigned_ambulance; a null assigned_ambulance is an indexed value too),
\* for a write of document d under id
DriverIndexOk(id, d) ==
    \A o \in DOMAIN drivers :
        o # id => /\ drivers[o].user # d.user
                  /\ drivers[o].license_number # d.license_number
                  /\ drivers[o].assigned_ambulance # d.assigned_ambulance

\* the role is assigned but the document is never saved
SetRole_Unsaved(us, uid, role) == us

\* user.role = role; await user.save()
SetRole(us, uid, role) == [us EXCEPT ![uid].role = role]

\* POST /drivers/create (verifyAdmin), revision 1
CreateDriverV1(cred, body) ==
    /\ driverRev = 1
    /\ nextId.driver <= MaxDrivers
    /\ req' = Request("createDriver", cred, 0, body)
    /\ UNCHANGED <<medics, ambulances, incidents, tokens, driverRev, inflight, held>>
    /\ LET driver == [user |-> body.user_id, license_number |-> body.license_number,
                      assigned_ambulance |-> body.assigned_ambulance]
       IN IF VerifyAdmin(cred).status # 0
          THEN resp' = VerifyAdmin(cred) /\ UNCHANGED <<users, drivers, nextId>>
          ELSE IF body.user_id \notin DOMAIN users
          THEN resp' = Reply(404, "User not found") /\ UNCHANGED <<users, drivers, nextId>>
          ELSE IF DriversOfUser(body.user_id) # {}
          THEN resp' = Reply(400, "User is already a driver")
               /\ UNCHANGED <<users, drivers, nextId>>
          ELSE /\ users' = SetRole(users, body.user_id, "driver")
               /\ IF driver.license_number = "" \/ ~DriverIndexOk(nextId.driver, driver)
                  THEN resp' = Reply(500, "Server error") /\ UNCHANGED <<drivers, nextId>>
                  ELSE /\ drivers' = Put(drivers, nextId.driver, driver)
                       /\ nextId' = [nextId EXCEPT !.driver = @ + 1]
                       /\ resp' = [Reply(201, "Driver created successfully")
                                     EXCEPT !.id = nextId.driver]

\* POST /drivers/create (verifyAdmin), revision 3: no Driver lookup, the
\* Driver schema of this revision has no unique index
CreateDriverV3(cred, body) ==
    /\ driverRev = 3
    /\ nextId.driver <= MaxDrivers
    /\ req' = Request("createDriver", cred, 0, body)
    /\ UNCHANGED <<medics, ambulances, incidents, tokens, driverRev, inflight, held>>
    /\ LET driver == [user |-> body.user_id, license_number |-> body.license_number,
                      assigned_ambulance |-> body.assigned_ambulance]
       IN IF VerifyAdmin(cred).status # 0
          THEN resp' = VerifyAdmin(cred) /\ UNCHANGED <<users, drivers, nextId>>
          ELSE IF body.user_id = 0 \/ body.license_number = ""
          THEN resp' = Reply(400, "User ID and License Number are required")
               /\ UNCHANGED <<users, drivers, nextId>>
          ELSE IF body.user_id \notin DOMAIN users
          THEN resp' = Reply(404, "User not found") /\ UNCHANGED <<users, drivers, nextId>>
          ELSE /\ users' = SetRole(users, body.user_id, "driver")
               /\ IF body.assigned_ambulance # 0
                     /\ body.assigned_ambulance \notin DOMAIN ambulances
                  THEN resp' = Reply(404, "Ambulance not found")
                       /\ UNCHANGED <<drivers, nextId>>
                  ELSE /\ drivers' = Put(drivers, nextId.driver, driver)
                       /\ nextId' = [nextId EXCEPT !.driver = @ + 1]
                       /\ resp' = [Reply(201, "Driver created successfully")
                                     EXCEPT !.id = nextId.driver]

\* DELETE /drivers/:id (verifyAdmin), the same in every revision:
\* populate() leaves driver.user null when the owner is gone, and
\* driver.user._id then throws into the catch block
DeleteDriver(cred, id) ==
    /\ req' = Request("deleteDriver", cred, id, EmptyBody)
    /\ UNCHANGED <<medics, ambulances, incidents, nextId, tokens, driverRev, inflight, held>>
    /\ IF VerifyAdmin(cred).status # 0
       THEN resp' = VerifyAdmin(cred) /\ UNCHANGED <<users, drivers>>
       ELSE IF id \notin DOMAIN drivers
       THEN resp' = Reply(404, "Driver not found") /\ UNCHANGED <<users, drivers>>
       ELSE IF drivers[id].user \notin DOMAIN users
       THEN resp' = Reply(500, "Server error") /\ UNCHANGED <<users, drivers>>
       ELSE /\ users' = SetRole(users, drivers[id].user, "user")
            /\ drivers' = Remove(drivers, id)
            /\ resp' = Reply(200, "Driver role revoked, user reverted to regular user")

\* the unique indexes of the Medic schema (user, phone), for a write of
\* document m under id
MedicIndexOk(id, m) ==
    \A o \in DOMAIN medics :
        o # id => medics[o].user # m.user /\ medics[o].phone # m.phone

\* POST /medics (verifyAdmin)
CreateMedic(cred, body) ==
    /\ nextId.medic <= MaxMedics
    /\ req' = Request("createMedic", cred, 0, body)
    /\ UNCHANGED <<drivers, ambulances, incidents, tokens, driverRev, inflight, held>>
    /\ IF VerifyAdmin(cred).status # 0
       THEN resp' = VerifyAdmin(cred) /\ UNCHANGED <<users, medics, nextId>>
       ELSE IF body.user_id \notin DOMAIN users
       THEN resp' = Reply(404, "User not found") /\ UNCHANGED <<users, medics, nextId>>
       ELSE IF users[body.user_id].role = "medic"
       THEN resp' = Reply(400, "User is already a medic")
            /\ UNCHANGED <<users, medics, nextId>>
       ELSE LET user == users[body.user_id]
                medic == [user |-> body.user_id, name |-> user.name,
                          phone |-> user.phone_number_1, specialty |-> body.specialty,
                          assigned_ambulance |-> body.assigned_ambulance]
            IN /\ users' = SetRole(users, body.user_id, "medic")
               /\ IF ~MedicIndexOk(nextId.medic, medic)
                  THEN resp' = Reply(500, "Server error") /\ UNCHANGED <<medics, nextId>>
                  ELSE /\ medics' = Put(medics, nextId.medic, medic)
                       /\ nextId' = [nextId EXCEPT !.medic = @ + 1]
                       /\ resp' = [Reply(201, "Medic created successfully")
                                     EXCEPT !.id = nextId.medic]

\* a revocation that fails, as the Driver one does, when the owner is gone
DeleteMedic_OwnerRequired(cred, id) ==
    /\ req' = Request("deleteMedic", cred, id, EmptyBody)
    /\ UNCHANGED <<drivers, ambulances, incidents, nextId, tokens, driverRev, inflight, held>>
    /\ IF VerifyAdmin(cred).status # 0
       THEN resp' = VerifyAdmin(cred) /\ UNCHANGED <<users, medics>>
       ELSE IF id \notin DOMAIN medics
       THEN resp' = Reply(404, "Medic not found") /\ UNCHANGED <<users, medics>>
       ELSE IF medics[id].user \notin DOMAIN users
       THEN resp' = Reply(500, "Server error") /\ UNCHANGED <<users, medics>>
       ELSE /\ users' = SetRole(users, medics[id].user, "user")
            /\ medics' = Remove(medics, id)
            /\ resp' = Reply(200, "Medic deleted successfully")

\* DELETE /medics/:id (verifyAdmin)
DeleteMedic(cred, id) ==
    /\ req' = Request("deleteMedic", cred, id, EmptyBody)
    /\ UNCHANGED <<drivers, ambulances, incidents, nextId, tokens, driverRev, inflight, held>>
    /\ IF VerifyAdmin(cred).status # 0
       THEN resp' = VerifyAdmin(cred) /\ UNCHANGED <<users, medics>>
       ELSE IF id \notin DOMAIN medics
       THEN resp' = Reply(404, "Medic not found") /\ UNCHANGED <<users, medics>>
       ELSE /\ users' = IF medics[id].user \in DOMAIN users
                        THEN SetRole(users, medics[id].user, "user")
                        ELSE users
            /\ medics' = Remove(medics, id)
            /\ resp' = Reply(200, "Medic deleted successfully")

(* ---------------------------- incident lifecycle ----------------------- *)
\* let [lat, lng] = coordinates; swap when |lat| > 90 or |lng| > 180
NormalizeCoordinates(c) ==
    IF Abs(c[1]) > 90 \/ Abs(c[2]) > 180
    THEN [lat |-> c[2], lng |-> c[1]]
    ELSE [lat |-> c[1], lng |-> c[2]]

\* the range check after the swap
CoordinatesValid(p) ==
    ~(p.lat < -90 \/ p.lat > 90 \/ p.lng < -180 \/ p.lng > 180)

\* schema validation of an Incident document on save()
IncidentValid(i) ==
    /\ i.phone # "" /\ i.incident_type # ""
    /\ i.priority >= 1 /\ i.priority <= 5
    /\ i.status \in IncidentStatuses

\* a report that takes the status from the request body
ReportStatus_FromBody(body) == IF body.status = "" THEN "pending" ELSE body.status

\* new Incident({...}) is given no status: the schema default applies
ReportStatus(body) == "pending"

\* POST /incidents/create (verifyToken)
CreateIncident(cred, body) ==
    /\ nextId.incident <= MaxIncidents
    /\ req' = Request("createIncident", cred, 0, body)
    /\ UNCHANGED <<users, drivers, medics, ambulances, tokens, driverRev, inflight>>
    /\ IF VerifyToken(cred).status # 0
       THEN resp' = VerifyToken(cred) /\ UNCHANGED <<incidents, nextId>>
       ELSE IF body.coordinates = <<>> \/ body.incident_type = "" \/ body.priority = 0
       THEN resp' = Reply(400, "Missing required fields") /\ UNCHANGED <<incidents, nextId>>
       ELSE IF ~CoordinatesValid(NormalizeCoordinates(body.coordinates))
       THEN resp' = Reply(400, "Invalid coordinates") /\ UNCHANGED <<incidents, nextId>>
       ELSE IF cred.userId \notin DOMAIN users
       THEN resp' = Reply(404, "User not found") /\ UNCHANGED <<incidents, nextId>>
       ELSE IF body.ambulanceId # 0 /\ body.ambulanceId \notin DOMAIN ambulances
       THEN resp' = Reply(404, "Ambulance not found") /\ UNCHANGED <<incidents, nextId>>
       ELSE LET p == NormalizeCoordinates(body.coordinates)
                newIncident == [user |-> cred.userId,
                                phone |-> users[cred.userId].phone_number_1,
                                coordinates |-> <<p.lng, p.lat>>,
                                incident_type |-> body.incident_type,
                                priority |-> body.priority,
                                status |-> ReportStatus(body),
                                ambulance |-> body.ambulanceId]
            IN IF ~IncidentValid(newIncident)
               THEN resp' = Reply(500, "Server error") /\ UNCHANGED <<incidents, nextId>>
               ELSE /\ incidents' = Put(incidents, nextId.incident, newIncident)
                    /\ nextId' = [nextId EXCEPT !.incident = @ + 1]
                    /\ resp' = [Reply(201, "Incident reported successfully")
                                  EXCEPT !.id = nextId.incident]

\* the dispatcher check read from the role the credential embeds
IsDispatcher_FromClaim(cred) == cred.role = "dispatcher"

\* const user = await User.findById(req.user.userId);
\* !user || user.role !== "dispatcher" is the 403 of approve and revoke
IsDispatcher(cred) ==
    cred.userId \in DOMAIN users /\ users[cred.userId].role = "dispatcher"

\* approve without its "already dispatched" guard
AlreadyDispatched_Skipped(incident) == FALSE

\* the guard of approve: incident.status === "dispatched"
AlreadyDispatched(incident) == incident.status = "dispatched"

\* POST /incidents/:incidentId/approve (verifyToken)
Approve(cred, id) ==
    /\ req' = Request("approve", cred, id, EmptyBody)
    /\ UNCHANGED <<users, drivers, medics, ambulances, nextId, tokens, driverRev, inflight>>
    /\ IF VerifyToken(cred).status # 0
       THEN resp' = VerifyToken(cred) /\ UNCHANGED incidents
       ELSE IF ~IsDispatcher(cred)
       THEN resp' = Reply(403, "Only dispatchers can approve incidents")
            /\ UNCHANGED incidents
       ELSE IF id \notin DOMAIN incidents
       THEN resp' = Reply(404, "Incident not found") /\ UNCHANGED incidents
       ELSE IF AlreadyDispatched(incidents[id])
       THEN resp' = Reply(400, "This incident is already dispatched")
            /\ UNCHANGED incidents
       ELSE IF ~IncidentValid([incidents[id] EXCEPT !.status = "dispatched"])
       THEN resp' = Reply(500, "Server error") /\ UNCHANGED incidents
       ELSE /\ incidents' = [incidents EXCEPT ![id].status = "dispatched"]
            /\ resp' = [Reply(200, "Incident approved and dispatched successfully")
                          EXCEPT !.id = id]

\* POST /incidents/:incidentId/revoke (verifyToken): save() validates the
\* new status against the schema enum
Revoke(cred, id) ==
    /\ req' = Request("revoke", cred, id, EmptyBody)
    /\ UNCHANGED <<users, drivers, medics, ambulances, nextId, tokens, driverRev, inflight>>
    /\ IF VerifyToken(cred).status # 0
       THEN resp' = VerifyToken(cred) /\ UNCHANGED incidents
       ELSE IF ~IsDispatcher(cred)
       THEN resp' = Reply(403, "Only dispatchers can revoke incidents")
            /\ UNCHANGED incidents
       ELSE IF id \notin DOMAIN incidents
       THEN resp' = Reply(404, "Incident not found") /\ UNCHANGED incidents
       ELSE IF incidents[id].status = "request-denied"
       THEN resp' = Reply(400, "This incident has already been revoked")
            /\ UNCHANGED incidents
       ELSE IF ~IncidentValid([incidents[id] EXCEPT !.status = "request-denied"])
       THEN resp' = Reply(500, "Server error") /\ UNCHANGED incidents
       ELSE /\ incidents' = [incidents EXCEPT ![id].status = "request-denied"]
            /\ resp' = [Reply(200, "Incident request revoked successfully")
                          EXCEPT !.id = id]

\* a status patch that lets an Incident be resolved only once dispatched
PatchStatus_OnlyAfterDispatch(cred, id, body) ==
    /\ req' = Request("patchStatus", cred, id, body)
    /\ UNCHANGED <<users, drivers, medics, ambulances, nextId, tokens, driverRev, inflight>>
    /\ IF VerifyToken(cred).status # 0
       THEN resp' = VerifyToken(cred) /\ UNCHANGED incidents
       ELSE IF id \notin DOMAIN incidents
       THEN resp' = Reply(404, "Incident not found") /\ UNCHANGED incidents
       ELSE IF body.status = "resolved" /\ incidents[id].status # "dispatched"
       THEN resp' = Reply(400, "Incident not dispatched") /\ UNCHANGED incidents
       ELSE /\ incidents' = IF body.status = "" THEN incidents
                            ELSE [incidents EXCEPT ![id].status = body.status]
            /\ resp' = [Reply(200, "") EXCEPT !.id = id]

\* PATCH /incidents/:id (verifyToken): findByIdAndUpdate(id, {status}) runs
\* no validators, an undefined status is dropped from the update
PatchStatus(cred, id, body) ==
    /\ req' = Request("patchStatus", cred, id, body)
    /\ UNCHANGED <<users, drivers, medics, ambulances, nextId, tokens, driverRev, inflight>>
    /\ IF VerifyToken(cred).status # 0
       THEN resp' = VerifyToken(cred) /\ UNCHANGED incidents
       ELSE IF id \notin DOMAIN incidents
       THEN resp' = Reply(404, "Incident not found") /\ UNCHANGED incidents
       ELSE /\ incidents' = IF body.status = "" THEN incidents
                            ELSE [incidents EXCEPT ![id].status = body.status]
            /\ resp' = [Reply(200, "") EXCEPT !.id = id]

\* DELETE /incidents/:id (verifyAdmin)
DeleteIncident(cred, id) ==
    /\ req' = Request("deleteIncident", cred, id, EmptyBody)
    /\ UNCHANGED <<users, drivers, medics, ambulances, nextId, tokens, driverRev, inflight>>
    /\ IF VerifyAdmin(cred).status # 0
       THEN resp' = VerifyAdmin(cred) /\ UNCHANGED incidents
       ELSE IF id \notin DOMAIN incidents
       THEN resp' = Reply(404, "Incident not found") /\ UNCHANGED incidents
       ELSE /\ incidents' = Remove(incidents, id)
            /\ resp' = Reply(200, "Incident deleted successfully")

(* ---------------------------- ambulance fleet -------------------------- *)
\* create without the swap of a reversed pair
AmbulanceCreateCoordinates_NoSwap(c) == [lat |-> c[1], lng |-> c[2]]

\* POST /ambulances: let [lat, lng] = location.coordinates;
\* if (Math.abs(lat) > 90 || Math.abs(lng) > 180) [lng, lat] = [lat, lng]
AmbulanceCreateCoordinates(c) ==
    IF Abs(c[1]) > 90 \/ Abs(c[2]) > 180
    THEN [lat |-> c[2], lng |-> c[1]]
    ELSE [lat |-> c[1], lng |-> c[2]]

\* POST /ambulances: the range check that answers "Invalid coordinates"
AmbulanceCreateRejects(p) ==
    p.lat < -90 \/ p.lat > 90 \/ p.lng < -180 \/ p.lng > 180

\* PUT /ambulances/:id: the same two statements inside
\* if (location && location.coordinates)
AmbulanceUpdateCoordinates(c) ==
    IF Abs(c[1]) > 90 \/ Abs(c[2]) > 180
    THEN [lat |-> c[2], lng |-> c[1]]
    ELSE [lat |-> c[1], lng |-> c[2]]

\* update that stores the pair without its range check
AmbulanceUpdateRejects_Unchecked(p) == FALSE

\* PUT /ambulances/:id: the range check that answers "Invalid coordinates"
AmbulanceUpdateRejects(p) ==
    p.lat < -90 \/ p.lat > 90 \/ p.lng < -180 \/ p.lng > 180

\* the unique index on license_plate, for document id holding a
PlateIndexOk(id, a) ==
    \A o \in DOMAIN ambulances :
        o # id => ambulances[o].license_plate # a.license_plate

\* schema validation of an Ambulance document
AmbulanceValid(a) ==
    /\ a.license_plate # ""
    /\ a.status \in AmbulanceStatuses
    /\ a.coordinates # <<>>

\* POST /ambulances (verifyAdmin)
CreateAmbulance(cred, body) ==
    /\ nextId.ambulance <= MaxAmbulances
    /\ req' = Request("createAmbulance", cred, 0, body)
    /\ UNCHANGED <<users, drivers, medics, incidents, tokens, driverRev, inflight, held>>
    /\ IF VerifyAdmin(cred).status # 0
       THEN resp' = VerifyAdmin(cred) /\ UNCHANGED <<ambulances, nextId>>
       ELSE IF body.license_plate = "" \/ body.status = "" \/ body.coordinates = <<>>
       THEN resp' = Reply(400, "Missing required fields")
            /\ UNCHANGED <<ambulances, nextId>>
       ELSE IF body.status \notin {"available", "on-duty", "maintenance"}
       THEN resp' = Reply(400, "Invalid status value")
            /\ UNCHANGED <<ambulances, nextId>>
       ELSE IF AmbulanceCreateRejects(AmbulanceCreateCoordinates(body.coordinates))
       THEN resp' = Reply(400, "Invalid coordinates")
            /\ UNCHANGED <<ambulances, nextId>>
       ELSE LET p == AmbulanceCreateCoordinates(body.coordinates)
                ambulance == [license_plate |-> body.license_plate,
                              status |-> body.status,
                              hospital_name |-> body.hospital_name,
                              coordinates |-> <<p.lng, p.lat>>]
            IN IF ~AmbulanceValid(ambulance) \/ ~PlateIndexOk(nextId.ambulance, ambulance)
               THEN resp' = Reply(500, "Server error")
                    /\ UNCHANGED <<ambulances, nextId>>
               ELSE /\ ambulances' = Put(ambulances, nextId.ambulance, ambulance)
                    /\ nextId' = [nextId EXCEPT !.ambulance = @ + 1]
                    /\ resp' = [Reply(201, "Ambulance created successfully")
                                  EXCEPT !.id = nextId.ambulance]

\* GET /ambulances (verifyToken)
ListAmbulances(cred) ==
    /\ req' = Request("listAmbulances", cred, 0, EmptyBody)
    /\ UNCHANGED <<db, tokens, driverRev, inflight, held>>
    /\ IF VerifyToken(cred).status # 0
       THEN resp' = VerifyToken(cred)
       ELSE resp' = Reply(200, "Ambulances retrieved successfully")

\* the update document of PUT /ambulances/:id applied to a: undefined
\* fields are dropped, location is set only when the body carried one
ApplyAmbulanceUpdate(a, body) ==
    LET p == AmbulanceUpdateCoordinates(body.coordinates)
    IN [license_plate |-> IF body.license_plate = "" THEN a.license_plate
                          ELSE body.license_plate,
        status |-> IF body.status = "" THEN a.status ELSE body.status,
        hospital_name |-> IF body.hospital_name = "" THEN a.hospital_name
                          ELSE body.hospital_name,
        coordinates |-> IF body.coordinates = <<>> THEN a.coordinates
                        ELSE <<p.lng, p.lat>>]

\* PUT /ambulances/:id (verifyAdmin), findByIdAndUpdate with runValidators
UpdateAmbulance(cred, id, body) ==
    /\ req' = Request("updateAmbulance", cred, id, body)
    /\ UNCHANGED <<users, drivers, medics, incidents, nextId, tokens, driverRev, inflight, held>>
    /\ IF VerifyAdmin(cred).status # 0
       THEN resp' = VerifyAdmin(cred) /\ UNCHANGED ambulances
       ELSE IF body.status # "" /\ body.status \notin {"available", "on-duty", "maintenance"}
       THEN resp' = Reply(400, "Invalid status value") /\ UNCHANGED ambulances
       ELSE IF /\ body.coordinates # <<>>
               /\ AmbulanceUpdateRejects(AmbulanceUpdateCoordinates(body.coordinates))
       THEN resp' = Reply(400, "Invalid coordinates") /\ UNCHANGED ambulances
       ELSE IF id \notin DOMAIN ambulances
       THEN resp' = Reply(404, "Ambulance not found") /\ UNCHANGED ambulances
       ELSE LET updated == ApplyAmbulanceUpdate(ambulances[id], body)
            IN IF ~AmbulanceValid(updated) \/ ~PlateIndexOk(id, updated)
               THEN resp' = Reply(500, "Server error") /\ UNCHANGED ambulances
               ELSE /\ ambulances' = [ambulances EXCEPT ![id] = updated]
                    /\ resp' = [Reply(200, "Ambulance updated successfully")
                                  EXCEPT !.id = id]

\* DELETE /ambulances/:id (verifyAdmin)
DeleteAmbulance(cred, id) ==
    /\ req' = Request("deleteAmbulance", cred, id, EmptyBody)
    /\ UNCHANGED <<users, drivers, medics, incidents, nextId, tokens, driverRev, inflight, held>>
    /\ IF VerifyAdmin(cred).status # 0
       THEN resp' = VerifyAdmin(cred) /\ UNCHANGED ambulances
       ELSE IF id \notin DOMAIN ambulances
       THEN resp' = Reply(404, "Ambulance not found") /\ UNCHANGED ambulances
       ELSE /\ ambulances' = Remove(ambulances, id)
            /\ resp' = Reply(200, "Ambulance deleted successfully")

(* ---------------------------- interleaved handlers --------------------- *)
\* Handlers that await between a read or a first write and their last write,
\* split at that await: between the two steps other requests run, and the
\* process may stop.  The response of a split handler is kept in inflight.

\* worker w can take a new request
Free(w) == inflight[w].pc \in {"idle", "done", "crashed"}

\* worker w has answered st
Answered(op, cred, id, body, st) ==
    [pc |-> "done", op |-> op, cred |-> cred, id |-> id, body |-> body,
     status |-> st]

\* worker w is past the first part of its handler and awaits the rest
Awaiting(pc, op, cred, id, body) ==
    [pc |-> pc, op |-> op, cred |-> cred, id |-> id, body |-> body, status |-> 0]

\* approve up to the guard: the dispatcher check, Incident.findById and the
\* "already dispatched" test on the document just read
ApproveRead(w, cred, id) ==
    /\ Free(w)
    /\ UNCHANGED <<db, tokens, driverRev, req, resp>>
    /\ inflight' = [inflight EXCEPT ![w] =
          IF VerifyToken(cred).status # 0
          THEN Answered("approve", cred, id, EmptyBody, VerifyToken(cred).status)
          ELSE IF ~IsDispatcher(cred)
          THEN Answered("approve", cred, id, EmptyBody, 403)
          ELSE IF id \notin DOMAIN incidents
          THEN Answered("approve", cred, id, EmptyBody, 404)
          ELSE IF AlreadyDispatched(incidents[id])
          THEN Answered("approve", cred, id, EmptyBody, 400)
          ELSE Awaiting("approving", "approve", cred, id, EmptyBody)]

\* approve from incident.status = "dispatched" on: save() writes the status
\* whatever the stored status has become, and fails only when the document
\* is gone
ApproveSave(w) ==
    /\ inflight[w].pc = "approving"
    /\ UNCHANGED <<users, drivers, medics, ambulances, nextId, tokens, driverRev,
                   req, resp>>
    /\ LET r == inflight[w]
       IN IF r.id \notin DOMAIN incidents
          THEN /\ UNCHANGED incidents
               /\ inflight' = [inflight EXCEPT ![w] =
                                 Answered(r.op, r.cred, r.id, r.body, 500)]
          ELSE /\ incidents' = [incidents EXCEPT ![r.id].status = "dispatched"]
               /\ inflight' = [inflight EXCEPT ![w] =
                                 Answered(r.op, r.cred, r.id, r.body, 200)]

\* POST /drivers/create, revision 1, up to await user.save()
CreateDriverV1Begin(w, cred, body) ==
    /\ driverRev = 1
    /\ Free(w)
    /\ UNCHANGED <<drivers, medics, ambulances, incidents, nextId, tokens, driverRev,
                   req, resp, held>>
    /\ IF VerifyAdmin(cred).status # 0
       THEN /\ UNCHANGED users
            /\ inflight' = [inflight EXCEPT ![w] =
                  Answered("createDriver", cred, 0, body, VerifyAdmin(cred).status)]
       ELSE IF body.user_id \notin DOMAIN users
       THEN /\ UNCHANGED users
            /\ inflight' = [inflight EXCEPT ![w] =
                  Answered("createDriver", cred, 0, body, 404)]
       ELSE IF DriversOfUser(body.user_id) # {}
       THEN /\ UNCHANGED users
            /\ inflight' = [inflight EXCEPT ![w] =
                  Answered("createDriver", cred, 0, body, 400)]
       ELSE /\ users' = SetRole(users, body.user_id, "driver")
            /\ inflight' = [inflight EXCEPT ![w] =
                  Awaiting("roleSaved", "createDriver", cred, 0, body)]

\* POST /drivers/create, revision 1, from new Driver(...) on
CreateDriverV1End(w) ==
    /\ driverRev = 1
    /\ inflight[w].pc = "roleSaved" /\ inflight[w].op = "createDriver"
    /\ nextId.driver <= MaxDrivers
    /\ UNCHANGED <<users, medics, ambulances, incidents, tokens, driverRev,
                   req, resp, held>>
    /\ LET r == inflight[w]
           driver == [user |-> r.body.user_id,
                      license_number |-> r.body.license_number,
                      assigned_ambulance |-> r.body.assigned_ambulance]
       IN IF driver.license_number = "" \/ ~DriverIndexOk(nextId.driver, driver)
          THEN /\ UNCHANGED <<drivers, nextId>>
               /\ inflight' = [inflight EXCEPT ![w] =
                                 Answered(r.op, r.cred, 0, r.body, 500)]
          ELSE /\ drivers' = Put(drivers, nextId.driver, driver)
               /\ nextId' = [nextId EXCEPT !.driver = @ + 1]
               /\ inflight' = [inflight EXCEPT ![w] =
                                 Answered(r.op, r.cred, nextId.driver, r.body, 201)]

\* POST /drivers/create, revision 3, up to await user.save()
CreateDriverV3Begin(w, cred, body) ==
    /\ driverRev = 3
    /\ Free(w)
    /\ UNCHANGED <<drivers, medics, ambulances, incidents, nextId, tokens, driverRev,
                   req, resp, held>>
    /\ IF VerifyAdmin(cred).status # 0
       THEN /\ UNCHANGED users
            /\ inflight' = [inflight EXCEPT ![w] =
                  Answered("createDriver", cred, 0, body, VerifyAdmin(cred).status)]
       ELSE IF body.user_id = 0 \/ body.license_number = ""
       THEN /\ UNCHANGED users
            /\ inflight' = [inflight EXCEPT ![w] =
                  Answered("createDriver", cred, 0, body, 400)]
       ELSE IF body.user_id \notin DOMAIN users
       THEN /\ UNCHANGED users
            /\ inflight' = [inflight EXCEPT ![w] =
                  Answered("createDriver", cred, 0, body, 404)]
       ELSE /\ users' = SetRole(users, body.user_id, "driver")
            /\ inflight' = [inflight EXCEPT ![w] =
                  Awaiting("roleSaved", "createDriver", cred, 0, body)]

\* POST /drivers/create, revision 3, from the ambulance lookup on
CreateDriverV3End(w) ==
    /\ driverRev = 3
    /\ inflight[w].pc = "roleSaved" /\ inflight[w].op = "createDriver"
    /\ nextId.driver <= MaxDrivers
    /\ UNCHANGED <<users, medics, ambulances, incidents, tokens, driverRev,
                   req, resp, held>>
    /\ LET r == inflight[w]
           driver == [user |-> r.body.user_id,
                      license_number |-> r.body.license_number,
                      assigned_ambulance |-> r.body.assigned_ambulance]
       IN IF /\ r.body.assigned_ambulance # 0
             /\ r.body.assigned_ambulance \notin DOMAIN ambulances
          THEN /\ UNCHANGED <<drivers, nextId>>
               /\ inflight' = [inflight EXCEPT ![w] =
                                 Answered(r.op, r.cred, 0, r.body, 404)]
          ELSE /\ drivers' = Put(drivers, nextId.driver, driver)
               /\ nextId' = [nextId EXCEPT !.driver = @ + 1]
               /\ inflight' = [inflight EXCEPT ![w] =
                                 Answered(r.op, r.cred, nextId.driver, r.body, 201)]

\* DELETE /drivers/:id up to await User.findByIdAndUpdate(owner, {role})
DeleteDriverBegin(w, cred, id) ==
    /\ Free(w)
    /\ UNCHANGED <<drivers, medics, ambulances, incidents, nextId, tokens, driverRev,
                   req, resp, held>>
    /\ IF VerifyAdmin(cred).status # 0
       THEN /\ UNCHANGED users
            /\ inflight' = [inflight EXCEPT ![w] =
                  Answered("deleteDriver", cred, id, EmptyBody, VerifyAdmin(cred).status)]
       ELSE IF id \notin DOMAIN drivers
       THEN /\ UNCHANGED users
            /\ inflight' = [inflight EXCEPT ![w] =
                  Answered("deleteDriver", cred, id, EmptyBody, 404)]
       ELSE IF drivers[id].user \notin DOMAIN users
       THEN /\ UNCHANGED users
            /\ inflight' = [inflight EXCEPT ![w] =
                  Answered("deleteDriver", cred, id, EmptyBody, 500)]
       ELSE /\ users' = SetRole(users, drivers[id].user, "user")
            /\ inflight' = [inflight EXCEPT ![w] =
                  Awaiting("roleReverted", "deleteDriver", cred, id, EmptyBody)]

\* DELETE /drivers/:id from await Driver.findByIdAndDelete(id) on
DeleteDriverEnd(w) ==
    /\ inflight[w].pc = "roleReverted" /\ inflight[w].op = "deleteDriver"
    /\ UNCHANGED <<users, medics, ambulances, incidents, nextId, tokens, driverRev,
                   req, resp, held>>
    /\ drivers' = IF inflight[w].id \in DOMAIN drivers
                  THEN Remove(drivers, inflight[w].id) ELSE drivers
    /\ inflight' = [inflight EXCEPT ![w] =
          Answered("deleteDriver", inflight[w].cred, inflight[w].id, EmptyBody, 200)]

\* POST /medics up to await user.save()
CreateMedicBegin(w, cred, body) ==
    /\ Free(w)
    /\ UNCHANGED <<drivers, medics, ambulances, incidents, nextId, tokens, driverRev,
                   req, resp, held>>
    /\ IF VerifyAdmin(cred).status # 0
       THEN /\ UNCHANGED users
            /\ inflight' = [inflight EXCEPT ![w] =
                  Answered("createMedic", cred, 0, body, VerifyAdmin(cred).status)]
       ELSE IF body.user_id \notin DOMAIN users
       THEN /\ UNCHANGED users
            /\ inflight' = [inflight EXCEPT ![w] =
                  Answered("createMedic", cred, 0, body, 404)]
       ELSE IF users[body.user_id].role = "medic"
       THEN /\ UNCHANGED users
            /\ inflight' = [inflight EXCEPT ![w] =
                  Answered("createMedic", cred, 0, body, 400)]
       ELSE /\ users' = SetRole(users, body.user_id, "medic")
            /\ inflight' = [inflight EXCEPT ![w] =
                  [Awaiting("roleSaved", "createMedic", cred, 0, body)
                     EXCEPT !.body.name = users[body.user_id].name,
                            !.body.phone_number_1 = users[body.user_id].phone_number_1]]

\* POST /medics from new Medic(...) on; name and phone are those of the user
\* document loaded in the first part
CreateMedicEnd(w) ==
    /\ inflight[w].pc = "roleSaved" /\ inflight[w].op = "createMedic"
    /\ nextId.medic <= MaxMedics
    /\ UNCHANGED <<users, drivers, ambulances, incidents, tokens, driverRev,
                   req, resp, held>>
    /\ LET r == inflight[w]
           medic == [user |-> r.body.user_id, name |-> r.body.name,
                     phone |-> r.body.phone_number_1,
                     specialty |-> r.body.specialty,
                     assigned_ambulance |-> r.body.assigned_ambulance]
       IN IF ~MedicIndexOk(nextId.medic, medic)
          THEN /\ UNCHANGED <<medics, nextId>>
               /\ inflight' = [inflight EXCEPT ![w] =
                                 Answered(r.op, r.cred, 0, r.body, 500)]
          ELSE /\ medics' = Put(medics, nextId.medic, medic)
               /\ nextId' = [nextId EXCEPT !.medic = @ + 1]
               /\ inflight' = [inflight EXCEPT ![w] =
                                 Answered(r.op, r.cred, nextId.medic, r.body, 201)]

\* the process stops while worker w is between the two writes of its
\* handler: the rest of the handler never runs and no response is sent
Crash(w) ==
    /\ inflight[w].pc \in {"roleSaved", "roleReverted"}
    /\ UNCHANGED <<db, tokens, driverRev, req, resp, held>>
    /\ inflight' = [inflight EXCEPT ![w].pc = "crashed"]

(* ---------------------------- request inputs --------------------------- *)
\* the credentials a client can present
Creds == tokens \cup {NoCred}

DirEmails == {"e1", "e2"}
DirPhones == {"p1", "p2"}
DirPhones2 == {"", "p3"}
DirRoles == {"admin", "nurse"}

DirRegisterBodies ==
    {[EmptyBody EXCEPT !.name = "n1", !.role = r, !.email = e, !.password = "w1",
                       !.phone_number_1 = p, !.phone_number_2 = q] :
        r \in DirRoles, e \in DirEmails, p \in DirPhones, q \in DirPhones2}
    \cup {[EmptyBody EXCEPT !.name = "n1", !.role = "admin", !.email = "e1",
                            !.password = "w1"]}

DirLoginBodies == {[EmptyBody EXCEPT !.email = e, !.password = "w1"] : e \in DirEmails}

DirUpdateBodies ==
    {[EmptyBody EXCEPT !.email = e] : e \in DirEmails}
    \cup {[EmptyBody EXCEPT !.phone_number_1 = p] : p \in DirPhones}
    \cup {[EmptyBody EXCEPT !.phone_number_2 = "p3"]}

\* the accounts whose owners log in
Callers == {1}

\* the account a client registers as the n-th one
AccountBody(n, role) ==
    [EmptyBody EXCEPT !.name = "n" \o ToString(n), !.role = role,
                      !.email = "e" \o ToString(n), !.password = "w1",
                      !.phone_number_1 = "p" \o ToString(n)]

AccountLogin(n) == [EmptyBody EXCEPT !.email = "e" \o ToString(n), !.password = "w1"]

RoleBodies == {[EmptyBody EXCEPT !.role = r] : r \in {"user", "admin"}}

DriverBodies ==
    {[EmptyBody EXCEPT !.user_id = u, !.license_number = "l" \o ToString(u),
                       !.assigned_ambulance = a] :
        u \in UserIds, a \in {0, 1}}

MedicBodies == {[EmptyBody EXCEPT !.user_id = u, !.specialty = "s1"] : u \in UserIds}

IncidentBodies ==
    {[EmptyBody EXCEPT !.coordinates = <<10, 20>>, !.incident_type = "fire",
                       !.priority = 3],
     [EmptyBody EXCEPT !.coordinates = <<10, 20>>, !.incident_type = "fire",
                       !.priority = 3, !.status = "dispatched", !.user_id = 2]}

StatusBodies ==
    {[EmptyBody EXCEPT !.status = st] :
        st \in {"pending", "resolved", "request-denied", "closed"}}

IncRoleBodies == {[EmptyBody EXCEPT !.role = r] : r \in {"user", "dispatcher"}}

LoginPasswords == {"w1", "w2"}

LoginRegisterBodies ==
    {[AccountBody(nextId.user, "admin") EXCEPT !.password = w] : w \in LoginPasswords}

LoginBodies ==
    {[EmptyBody EXCEPT !.email = "e" \o ToString(u), !.password = w] :
        u \in UserIds, w \in LoginPasswords \cup {""}}

\* an admin update that carries a new password
PasswordBodies == {[EmptyBody EXCEPT !.password = w] : w \in LoginPasswords}

\* coordinate pairs (a, b) a client sends: in range, reversed, out of range,
\* on the limits 90 and 180
GeoFirst == {-91, 45, 90, 95}
GeoSecond == {-181, 40, 180, 200}
GeoPairs == {<<a, b>> : a \in GeoFirst, b \in GeoSecond}

GeoAmbulanceBodies ==
    {[EmptyBody EXCEPT !.license_plate = "k1", !.status = "available",
                       !.hospital_name = "h1", !.coordinates = c] : c \in GeoPairs}

GeoUpdateBodies == {[EmptyBody EXCEPT !.coordinates = c] : c \in GeoPairs}

GeoIncidentBodies ==
    {[EmptyBody EXCEPT !.coordinates = c, !.incident_type = "fire",
                       !.priority = 3] : c \in GeoPairs}

\* one pair in range, one reversed, one out of range, one on the limits
StorePairs == {<<45, 40>>, <<95, 40>>, <<45, 200>>, <<90, 180>>}

StoreAmbulanceBodies ==
    {[EmptyBody EXCEPT !.license_plate = "k1", !.status = "available",
                       !.hospital_name = "h1", !.coordinates = c] : c \in StorePairs}

StoreUpdateBodies ==
    {[EmptyBody EXCEPT !.coordinates = c] : c \in StorePairs}
    \cup {[EmptyBody EXCEPT !.status = "on-duty"]}

\* the update a client sends after reading Ambulance id: the coordinates
\* array exactly as GET /ambulances returned it
StoredPairBody(id) == [EmptyBody EXCEPT !.coordinates = ambulances[id].coordinates]

StoreIncidentBodies ==
    {[EmptyBody EXCEPT !.coordinates = c, !.incident_type = "fire",
                       !.priority = 3] : c \in StorePairs}

\* credentials of account 1 a client can present, issued or not
AuthCreds ==
    {[userId |-> 1, role |-> r] : r \in {"admin", "user"}} \cup {NoCred, BadCred}

AuthRoleBodies == {[EmptyBody EXCEPT !.role = r] : r \in {"user", "admin"}}

AuthAmbulanceBody ==
    [EmptyBody EXCEPT !.license_plate = "k1", !.status = "available",
                      !.hospital_name = "h1", !.coordinates = <<45, 40>>]

AuthUpdateBody == [EmptyBody EXCEPT !.status = "on-duty"]

\* promotions to Driver that name no ambulance
PlainDriverBodies == {b \in DriverBodies : b.assigned_ambulance = 0}

FlowStatusBodies ==
    {[EmptyBody EXCEPT !.status = st] : st \in {"resolved", "request-denied"}}

(* ---------------------------- specifications --------------------------- *)
\* the user directory: registration and the account updates
NextDir ==
    \/ \E b \in DirRegisterBodies : Register(b)
    \/ \E b \in DirLoginBodies : Login(b)
    \/ \E t \in tokens : ExpireToken(t)
    \/ \E c \in Creds, b \in DirUpdateBodies : UpdateSelf(c, b)
    \/ \E c \in Creds, id \in UserIds, b \in DirUpdateBodies : UpdateUserAdmin(c, id, b)
    \/ \E id \in UserIds : DeleteUserUnguarded(id)
    \/ \E c \in Creds, id \in UserIds : DeleteUserAdmin(c, id)

SpecDir == Init /\ [][NextDir]_vars

\* role assignment: promotion to and revocation of Driver and Medic
Next ==
    \/ \E r \in {"admin", "user"} : Register(AccountBody(nextId.user, r))
    \/ Login(AccountLogin(1))
    \/ \E c \in tokens, b \in DriverBodies : CreateDriverV1(c, b)
    \/ \E c \in tokens, b \in DriverBodies : CreateDriverV3(c, b)
    \/ \E c \in Creds, id \in DriverIds : DeleteDriver(c, id)
    \/ \E c \in tokens, id \in UserIds, b \in RoleBodies : UpdateRole(c, id, b)
    \/ \E c \in tokens, id \in UserIds : DeleteUserAdmin(c, id)

Spec == Init /\ [][Next]_vars

\* the incident lifecycle: report, approve, revoke, status patch, delete
NextInc ==
    \/ \E r \in {"dispatcher", "user"} : Register(AccountBody(nextId.user, r))
    \/ \E u \in Callers : Login(AccountLogin(u))
    \/ \E t \in tokens : ExpireToken(t)
    \/ \E c \in tokens, b \in IncRoleBodies : UpdateSelf(c, b)
    \/ \E id \in Callers : DeleteUserUnguarded(id)
    \/ \E c \in tokens, b \in IncidentBodies : Unrecorded(CreateIncident(c, b))
    \/ \E c \in Creds \cup {BadCred}, id \in IncidentIds : Unrecorded(Approve(c, id))
    \/ \E c \in tokens, id \in IncidentIds : Unrecorded(Revoke(c, id))
    \/ \E c \in tokens, id \in IncidentIds, b \in StatusBodies : Unrecorded(PatchStatus(c, id, b))

SpecInc == Init /\ [][NextInc]_vars

\* authentication: accounts come and go, passwords change, clients log in
NextLogin ==
    \/ \E b \in LoginRegisterBodies : Register(b)
    \/ \E b \in LoginBodies : Login(b)
    \/ \E t \in tokens : ExpireToken(t)
    \/ \E c \in tokens, id \in UserIds, b \in PasswordBodies : UpdateUserAdmin(c, id, b)
    \/ \E id \in UserIds : DeleteUserUnguarded(id)

SpecLogin == Init /\ [][NextLogin]_vars

\* role assignment with both specialised roles
NextRoles ==
    \/ Next
    \/ \E c \in tokens, b \in MedicBodies : CreateMedic(c, b)
    \/ \E c \in tokens, id \in MedicIds : DeleteMedic(c, id)

SpecRoles == Init /\ [][NextRoles]_vars

\* geodata: the three handlers that take coordinates from a request
NextGeo ==
    \/ \E n \in Callers : nextId.user = n /\ Register(AccountBody(n, "admin"))
    \/ Login(AccountLogin(1))
    \/ \E c \in tokens, b \in GeoAmbulanceBodies : CreateAmbulance(c, b)
    \/ \E c \in tokens, id \in AmbulanceIds, b \in GeoUpdateBodies :
          UpdateAmbulance(c, id, b)
    \/ \E c \in tokens, b \in GeoIncidentBodies : Unrecorded(CreateIncident(c, b))

SpecGeo == Init /\ [][NextGeo]_vars

\* stored geodata: every handler that writes or removes an Ambulance or an
\* Incident
NextStore ==
    \/ \E n \in Callers : nextId.user = n /\ Register(AccountBody(n, "admin"))
    \/ Login(AccountLogin(1))
    \/ \E c \in tokens, b \in StoreAmbulanceBodies : CreateAmbulance(c, b)
    \/ \E c \in tokens, id \in AmbulanceIds, b \in StoreUpdateBodies :
          UpdateAmbulance(c, id, b)
    \/ \E c \in tokens, id \in DOMAIN ambulances :
          UpdateAmbulance(c, id, StoredPairBody(id))
    \/ \E c \in tokens, id \in AmbulanceIds : DeleteAmbulance(c, id)
    \/ \E c \in tokens, b \in StoreIncidentBodies : Unrecorded(CreateIncident(c, b))
    \/ \E c \in tokens, id \in IncidentIds :
          Unrecorded(PatchStatus(c, id, [EmptyBody EXCEPT !.status = "resolved"]))
    \/ \E c \in tokens, id \in IncidentIds : Unrecorded(DeleteIncident(c, id))

SpecStore == Init /\ [][NextStore]_vars

\* access control: one account whose stored role changes while its
\* credentials stay in circulation, and the guarded fleet and user routes
NextAuth ==
    \/ \E n \in Callers, r \in {"admin", "user"} :
          nextId.user = n /\ Register(AccountBody(n, r))
    \/ Login(AccountLogin(1))
    \/ \E t \in tokens : ExpireToken(t)
    \/ \E c \in tokens, b \in AuthRoleBodies : UpdateSelf(c, b)
    \/ \E id \in Callers : DeleteUserUnguarded(id)
    \/ \E c \in AuthCreds : CreateAmbulance(c, AuthAmbulanceBody)
    \/ \E c \in AuthCreds, id \in AmbulanceIds : UpdateAmbulance(c, id, AuthUpdateBody)
    \/ \E c \in AuthCreds, id \in AmbulanceIds : DeleteAmbulance(c, id)
    \/ \E c \in AuthCreds : ListAmbulances(c)
    \/ \E c \in AuthCreds, id \in Callers : DeleteUserAdmin(c, id)

SpecAuth == Init /\ [][NextAuth]_vars

\* revocation: role records are created, their owners deleted, Medic
\* records revoked
NextRevoke ==
    \/ \E r \in {"admin", "user"} : Register(AccountBody(nextId.user, r))
    \/ Login(AccountLogin(1))
    \/ \E c \in tokens, b \in PlainDriverBodies : CreateDriverV1(c, b)
    \/ \E c \in tokens, b \in PlainDriverBodies : CreateDriverV3(c, b)
    \/ \E c \in tokens, b \in MedicBodies : CreateMedic(c, b)
    \/ \E c \in Creds, id \in MedicIds : DeleteMedic(c, id)
    \/ \E c \in Creds, id \in UserIds : DeleteUserAdmin(c, id)

SpecRevoke == Init /\ [][NextRevoke]_vars

\* two approvals in flight at once
NextApproveRace ==
    \/ \E n \in Callers : nextId.user = n /\ Register(AccountBody(n, "dispatcher"))
    \/ Login(AccountLogin(1))
    \/ \E c \in tokens, b \in IncidentBodies : Unrecorded(CreateIncident(c, b))
    \/ \E w \in Workers, c \in tokens, id \in IncidentIds :
          Unrecorded(ApproveRead(w, c, id))
    \/ \E w \in Workers : Unrecorded(ApproveSave(w))

SpecApproveRace == Init /\ [][NextApproveRace]_vars

\* two promotions to Driver in flight at once
NextPromoteRace ==
    \/ \E r \in {"admin", "user"} : Register(AccountBody(nextId.user, r))
    \/ Login(AccountLogin(1))
    \/ \E w \in Workers, c \in tokens, b \in PlainDriverBodies :
          CreateDriverV1Begin(w, c, b)
    \/ \E w \in Workers : CreateDriverV1End(w)
    \/ \E w \in Workers, c \in tokens, b \in PlainDriverBodies :
          CreateDriverV3Begin(w, c, b)
    \/ \E w \in Workers : CreateDriverV3End(w)

SpecPromoteRace == Init /\ [][NextPromoteRace]_vars

\* one worker whose process may stop between the two writes of a handler
NextCrash ==
    \/ \E n \in UserIds :
          nextId.user = n /\ Register(AccountBody(n, IF n = 1 THEN "admin" ELSE "user"))
    \/ Login(AccountLogin(1))
    \/ \E c \in tokens, b \in PlainDriverBodies : CreateDriverV1Begin(1, c, b)
    \/ CreateDriverV1End(1)
    \/ \E c \in tokens, b \in PlainDriverBodies : CreateDriverV3Begin(1, c, b)
    \/ CreateDriverV3End(1)
    \/ \E c \in tokens, id \in DriverIds : DeleteDriverBegin(1, c, id)
    \/ DeleteDriverEnd(1)
    \/ \E c \in tokens, b \in MedicBodies : CreateMedicBegin(1, c, b)
    \/ CreateMedicEnd(1)
    \/ Crash(1)

SpecCrash == Init /\ [][NextCrash]_vars

\* the status flow of an Incident, with its history recorded
NextFlow ==
    \/ \E n \in Callers : nextId.user = n /\ Register(AccountBody(n, "dispatcher"))
    \/ Login(AccountLogin(1))
    \/ \E c \in tokens, b \in IncidentBodies : Recorded(CreateIncident(c, b))
    \/ \E c \in tokens, id \in IncidentIds : Recorded(Approve(c, id))
    \/ \E c \in tokens, id \in IncidentIds : Recorded(Revoke(c, id))
    \/ \E c \in tokens, id \in IncidentIds, b \in FlowStatusBodies :
          Recorded(PatchStatus(c, id, b))

SpecFlow == Init /\ [][NextFlow]_vars

(* ---------------------------- properties ------------------------------- *)
\* the request handled last passed verifyAdmin in the state it arrived in
AdminRequest == VerifyAdmin(req'.cred).status = 0

\* C1: a Promote-to-Driver that succeeds sets the user's role to "driver" and
\* adds exactly one Driver record, which references that user; a Promote for
\* a user who already has a Driver record fails and adds no Driver record.
C1_PromoteOnce ==
    [][(req'.op = "createDriver" /\ AdminRequest /\ req'.body.user_id \in DOMAIN users)
       => LET u == req'.body.user_id
          IN /\ resp'.status = 201
                 => /\ users'[u].role = "driver"
                    /\ DOMAIN drivers' = DOMAIN drivers \cup {resp'.id}
                    /\ resp'.id \notin DOMAIN drivers
                    /\ drivers'[resp'.id].user = u
             /\ DriversOfUser(u) # {}
                 => resp'.status >= 400 /\ drivers' = drivers]_vars

\* C2: a Driver record of an existing user implies that user's role is
\* "driver", a Medic record of an existing user that its role is "medic".
C2_RoleMatchesRecord ==
    /\ \A d \in DOMAIN drivers :
          drivers[d].user \in DOMAIN users => users[drivers[d].user].role = "driver"
    /\ \A m \in DOMAIN medics :
          medics[m].user \in DOMAIN users => users[medics[m].user].role = "medic"

DispatcherRequest ==
    /\ JwtVerify(req'.cred)
    /\ req'.cred.userId \in DOMAIN users
    /\ users[req'.cred.userId].role = "dispatcher"

\* C4: a dispatcher's Approve of an existing incident that is not
\* "dispatched" answers 200 and sets its status to "dispatched", changing
\* nothing else; on an incident already "dispatched" it answers an error and
\* leaves the incidents as they were.
C4_Approve ==
    [][(req'.op = "approve" /\ DispatcherRequest /\ req'.id \in DOMAIN incidents)
       => IF incidents[req'.id].status # "dispatched"
          THEN /\ resp'.status = 200
               /\ incidents' = [incidents EXCEPT ![req'.id].status = "dispatched"]
          ELSE /\ resp'.status >= 400
               /\ incidents' = incidents]_vars

\* a second Approve of a dispatched incident was refused
C4_Witness ==
    /\ req.op = "approve" /\ resp.status = 400
    /\ req.id \in DOMAIN incidents
    /\ incidents[req.id].status = "dispatched"

\* C5: a dispatcher's Revoke of an existing incident that is not
\* "request-denied" answers 200 and stores "request-denied"; on an incident
\* already "request-denied" it answers an error and changes nothing.
C5_Revoke ==
    [][(req'.op = "revoke" /\ DispatcherRequest /\ req'.id \in DOMAIN incidents)
       => IF incidents[req'.id].status # "request-denied"
          THEN /\ resp'.status = 200
               /\ incidents'[req'.id].status = "request-denied"
          ELSE /\ resp'.status >= 400
               /\ incidents' = incidents]_vars

\* C6: an Approve or Revoke with a credential jwt.verify accepts answers 403
\* exactly when the caller's stored role is not "dispatcher" (or the caller
\* is gone), whatever role the credential embeds, and a 403 changes no
\* incident.
C6_StoredRoleDecides ==
    [][(req'.op \in {"approve", "revoke"} /\ JwtVerify(req'.cred))
       => /\ resp'.status = 403 <=> ~DispatcherRequest
          /\ resp'.status = 403 => incidents' = incidents]_vars

\* a stale "dispatcher" credential, still valid, was answered 403
C6_Witness ==
    /\ req.op \in {"approve", "revoke"} /\ resp.status = 403
    /\ req.cred \in tokens
    /\ req.cred.role = "dispatcher"
    /\ req.id \in DOMAIN incidents

\* C7: the status of an incident changes only in a step whose request came
\* from a principal whose stored role is "dispatcher".
C7_OnlyDispatcherChangesStatus ==
    [][\A i \in DOMAIN incidents \cap DOMAIN incidents' :
          incidents'[i].status # incidents[i].status => DispatcherRequest]_vars

\* the body reuses the email, the primary phone or, when it carries one, the
\* secondary phone of an account in the directory
ReusesUniqueField(body) ==
    \E u \in DOMAIN users :
        \/ users[u].email = body.email
        \/ users[u].phone_number_1 = body.phone_number_1
        \/ body.phone_number_2 # "" /\ users[u].phone_number_2 = body.phone_number_2

\* name, role, email, password and primary phone are all present
HasRequiredFields(body) ==
    /\ body.name # "" /\ body.role # "" /\ body.email # ""
    /\ body.password # "" /\ body.phone_number_1 # ""

\* the step added exactly one account, built from the body
OneAccountCreated(body) ==
    /\ resp'.id \notin DOMAIN users
    /\ DOMAIN users' = DOMAIN users \cup {resp'.id}
    /\ \A u \in DOMAIN users : users'[u] = users[u]
    /\ users'[resp'.id].email = body.email
    /\ users'[resp'.id].phone_number_1 = body.phone_number_1
    /\ users'[resp'.id].phone_number_2 = body.phone_number_2
    /\ users'[resp'.id].role = body.role

\* C8 as stated: Register rejects a body that reuses a unique field and
\* creates nothing; it creates exactly one account whenever the required
\* fields are present and no unique field is reused.
C8_RegisterAsStated ==
    [][req'.op = "register"
       => /\ ReusesUniqueField(req'.body)
              => resp'.status >= 400 /\ users' = users
          /\ (HasRequiredFields(req'.body) /\ ~ReusesUniqueField(req'.body))
              => resp'.status = 201 /\ OneAccountCreated(req'.body)]_vars

\* C8 as amended: Register rejects a body that reuses a unique field and
\* creates nothing; it creates exactly one account whenever the required
\* fields are present, the role is one of the five roles of the User schema
\* and no unique field is reused.
C8_Register ==
    [][req'.op = "register"
       => /\ ReusesUniqueField(req'.body)
              => resp'.status >= 400 /\ users' = users
          /\ (HasRequiredFields(req'.body) /\ req'.body.role \in Roles
              /\ ~ReusesUniqueField(req'.body))
              => resp'.status = 201 /\ OneAccountCreated(req'.body)]_vars

\* a registration was refused for its secondary phone alone
C8_Witness ==
    /\ req.op = "register" /\ resp.status = 400
    /\ resp.msg = "Secondary phone number already in use"
    /\ \A u \in DOMAIN users :
          /\ users[u].email # req.body.email
          /\ users[u].phone_number_1 # req.body.phone_number_1
    /\ \E u \in DOMAIN users : users[u].phone_number_2 = req.body.phone_number_2

\* C9: no two accounts share an email, a primary phone or a secondary phone.
C9_UniqueFields ==
    \A u, v \in DOMAIN users :
        u # v => /\ users[u].email # users[v].email
                 /\ users[u].phone_number_1 # users[v].phone_number_1
                 /\ users[u].phone_number_2 # ""
                        => users[u].phone_number_2 # users[v].phone_number_2

\* the accounts a login body authenticates: the email is theirs and the
\* password is the one their stored hash was made from
Authenticated(body) ==
    {u \in DOMAIN users :
        users[u].email = body.email /\ users[u].password = Hash(body.password)}

\* C10: a Login with the email and password of an account answers 200 with a
\* credential whose principal id is that account's id; a Login with an
\* unknown email and a Login with a known email and a wrong password get one
\* and the same response, 400 "Invalid email or password", and no credential.
C10_Login ==
    [][(req'.op = "login" /\ req'.body.email # "" /\ req'.body.password # "")
       => IF Authenticated(req'.body) # {}
          THEN /\ resp'.status = 200
               /\ resp'.token.userId \in Authenticated(req'.body)
               /\ resp'.token \in tokens'
          ELSE /\ resp' = Reply(400, "Invalid email or password")
               /\ tokens' = tokens]_vars

\* a Login with a known email and a wrong password was refused with the
\* response an unknown email gets
C10_Witness ==
    /\ req.op = "login"
    /\ resp = Reply(400, "Invalid email or password")
    /\ req.body.password # ""
    /\ \E u \in DOMAIN users :
          /\ users[u].email = req.body.email
          /\ users[u].password \in {Hash(w) : w \in LoginPasswords \ {req.body.password}}

\* the normalization as the specification words it: a pair (a, b) with
\* |a| > 90 or |b| > 180 is read as (lng, lat), any other as (lat, lng)
StatedLat(c) == IF Abs(c[1]) > 90 \/ Abs(c[2]) > 180 THEN c[2] ELSE c[1]
StatedLng(c) == IF Abs(c[1]) > 90 \/ Abs(c[2]) > 180 THEN c[1] ELSE c[2]
StatedInRange(c) ==
    /\ -90 <= StatedLat(c) /\ StatedLat(c) <= 90
    /\ -180 <= StatedLng(c) /\ StatedLng(c) <= 180

\* the coordinates of the document the last request created or updated
StoredCoordinates ==
    IF req'.op = "createIncident" THEN incidents'[resp'.id].coordinates
    ELSE ambulances'[resp'.id].coordinates

StoredInRange(c) ==
    /\ Len(c) = 2
    /\ -180 <= c[1] /\ c[1] <= 180
    /\ -90 <= c[2] /\ c[2] <= 90

\* C12: every stored Ambulance and every stored Incident has coordinates
\* [lng, lat] with -180 <= lng <= 180 and -90 <= lat <= 90.
C12_StoredCoordinates ==
    /\ \A a \in DOMAIN ambulances : StoredInRange(ambulances[a].coordinates)
    /\ \A i \in DOMAIN incidents : StoredInRange(incidents[i].coordinates)

\* an updated Ambulance and a patched Incident are both stored
C12_Witness ==
    /\ \E a \in DOMAIN ambulances : ambulances[a].status = "on-duty"
    /\ \E i \in DOMAIN incidents : incidents[i].status = "resolved"
    /\ req.op = "updateAmbulance" /\ resp.status = 200
    /\ req.body.coordinates = <<90, 180>>

\* the routes registered behind verifyAdmin
AdminOps == {"createAmbulance", "updateAmbulance", "deleteAmbulance", "deleteUser"}

\* the response was written by the middleware, not by the handler
RefusedByAdminGuard ==
    \/ resp'.status = 401
    \/ resp'.status = 404 /\ resp'.msg = "User not found. Invalid token."
    \/ resp'.status = 403 /\ resp'.msg = "Access denied. Admins only."

\* the caller's credential is valid and its principal is a stored admin
StoredAdmin(cred) ==
    /\ cred \in tokens
    /\ cred.userId \in DOMAIN users
    /\ users[cred.userId].role = "admin"

\* C13: a request guarded by verifyAdmin reaches its handler if and only if
\* the credential is valid, the principal exists and its stored role is
\* "admin"; the role embedded in the credential plays no part.
C13_AdminGuard ==
    [][req'.op \in AdminOps => (~RefusedByAdminGuard <=> StoredAdmin(req'.cred))]_vars

\* a credential issued to a plain user reached an admin handler after the
\* stored role became "admin"
C13_Witness ==
    /\ req.op = "createAmbulance"
    /\ req.cred.role = "user"
    /\ resp.status = 201

\* the routes registered behind verifyToken
TokenOps == {"listAmbulances", "updateSelf", "createIncident", "approve",
             "revoke", "patchStatus"}

\* C14: a request guarded by verifyToken is served only if the credential
\* is valid and the principal it names still exists in the User directory;
\* the valid credential of a deleted account is refused on every such route.
C14_PrincipalExists ==
    [][(req'.op \in TokenOps /\ resp'.status \in {200, 201})
       => (req'.cred \in tokens /\ req'.cred.userId \in DOMAIN users)]_vars

\* C15: a User record is removed only by a request whose caller is a stored
\* admin.
C15_AdminOnlyDelete ==
    [][(DOMAIN users \ DOMAIN users') # {} => StoredAdmin(req'.cred)]_vars

\* C16: the Ambulance collection changes only in a request whose caller is a
\* stored admin; every other request leaves all Ambulance records as they
\* were.
C16_AdminOnlyFleet ==
    [][ambulances' # ambulances => StoredAdmin(req'.cred)]_vars

\* an authenticated caller who is not an admin asked to delete an existing
\* Ambulance and was refused
C16_Witness ==
    /\ req.op = "deleteAmbulance"
    /\ req.cred \in tokens
    /\ req.id \in DOMAIN ambulances
    /\ resp.status = 403

NewMedics == DOMAIN medics' \ DOMAIN medics

\* C18: an admin's Promote-to-Medic fails and changes nothing if the User
\* does not exist or already has the role "medic"; otherwise it succeeds,
\* sets the role to "medic" and adds one Medic record that references the
\* user and copies the user's name and phone.
C18_PromoteMedic ==
    [][(req'.op = "createMedic" /\ AdminRequest)
       => LET u == req'.body.user_id
          IN IF u \notin DOMAIN users \/ users[u].role = "medic"
             THEN resp'.status >= 400 /\ users' = users /\ medics' = medics
             ELSE /\ resp'.status = 201
                  /\ users' = [users EXCEPT ![u].role = "medic"]
                  /\ \E m \in NewMedics :
                        /\ NewMedics = {m}
                        /\ medics'[m].user = u
                        /\ medics'[m].name = users[u].name
                        /\ medics'[m].phone = users[u].phone_number_1
                  /\ \A m \in DOMAIN medics : medics'[m] = medics[m]]_vars

\* C19: an admin's DELETE of an existing Medic record answers 200 and
\* removes the record; the owner's role becomes "user" when the owner still
\* exists, and the User collection is untouched when the owner is gone.
C19_RevokeMedic ==
    [][(req'.op = "deleteMedic" /\ AdminRequest /\ req'.id \in DOMAIN medics)
       => LET o == medics[req'.id].user
          IN /\ resp'.status = 200
             /\ medics' = Remove(medics, req'.id)
             /\ IF o \in DOMAIN users
                THEN users' = [users EXCEPT ![o].role = "user"]
                ELSE users' = users]_vars

\* a Medic record was revoked after its owner, account 2, had been deleted:
\* the caller is account 1, so the record promoted from account 2 is the one
\* that went, and no request of this step removes a User
C19_Witness ==
    /\ req.op = "deleteMedic" /\ resp.status = 200
    /\ req.cred.userId = 1
    /\ DOMAIN users = {1}
    /\ nextId.user = 3
    /\ nextId.medic = 2
    /\ medics = <<>>

\* C20: every Incident a report creates has status "pending" and names the
\* caller as its reporter, whatever the request body carries.
C20_ReportPending ==
    [][req'.op = "createIncident"
       => \A i \in DOMAIN incidents' \ DOMAIN incidents :
             /\ incidents'[i].status = "pending"
             /\ incidents'[i].user = req'.cred.userId
             /\ req'.cred.userId \in DOMAIN users]_vars

\* a report whose body asked for status "dispatched" and another reporter
\* was stored as pending
C20_Witness ==
    /\ req.op = "createIncident" /\ resp.status = 201
    /\ req.body.status = "dispatched" /\ req.body.user_id = 2
    /\ resp.id \in DOMAIN incidents
    /\ incidents[resp.id].status = "pending"
    /\ incidents[resp.id].user = req.cred.userId

\* C24: a Promote-to-Driver or Promote-to-Medic that answers an error leaves
\* every User's role and the Driver and Medic collections as they were.
C24_FailedPromoteChangesNothing ==
    [][(req'.op \in {"createDriver", "createMedic"} /\ AdminRequest
        /\ resp'.status >= 400)
       => users' = users /\ drivers' = drivers /\ medics' = medics]_vars

\* C25: the stored role of an existing principal becomes "admin" only in a
\* request made by a stored admin.
C25_NoSelfEscalation ==
    [][\A u \in DOMAIN users \cap DOMAIN users' :
          (users[u].role # "admin" /\ users'[u].role = "admin")
          => StoredAdmin(req'.cred)]_vars

\* C26: the status of every stored Incident is one of "pending",
\* "dispatched", "resolved" and "request-denied".
C26_StatusEnum ==
    \A i \in DOMAIN incidents :
        incidents[i].status \in {"pending", "dispatched", "resolved", "request-denied"}

\* C28: an admin's Revoke of an existing Driver record answers 200 and
\* removes the record, whether or not the owning User still exists.
C28_RevokeAlwaysRemoves ==
    [][(req'.op = "deleteDriver" /\ AdminRequest /\ req'.id \in DOMAIN drivers)
       => resp'.status = 200 /\ req'.id \notin DOMAIN drivers']_vars

\* C29: an Ambulance update whose coordinates are the stored pair of that
\* Ambulance leaves the stored coordinates as they were.
C29_NormalizationStable ==
    [][(/\ req'.op = "updateAmbulance" /\ AdminRequest
        /\ req'.id \in DOMAIN ambulances
        /\ req'.body.coordinates = ambulances[req'.id].coordinates)
       => /\ resp'.status = 200
          /\ ambulances'[req'.id].coordinates = ambulances[req'.id].coordinates]_vars

\* C30: an admin's Promote-to-Driver that names no ambulance succeeds for
\* every existing user without a Driver record, however many Driver records
\* already have no ambulance.
C30_PromoteWithoutAmbulance ==
    [][(/\ req'.op = "createDriver" /\ AdminRequest
        /\ req'.body.assigned_ambulance = 0
        /\ req'.body.user_id \in DOMAIN users
        /\ DriversOfUser(req'.body.user_id) = {}
        /\ \A d \in DOMAIN drivers :
              drivers[d].license_number # req'.body.license_number)
       => resp'.status = 201]_vars

\* C21: of the Approve requests handled for one incident at most one is
\* answered 200, also when both read the incident before either writes.
C21_ApprovedOnce ==
    \A v, w \in Workers :
        (/\ v # w
         /\ inflight[v].op = "approve" /\ inflight[w].op = "approve"
         /\ inflight[v].id = inflight[w].id)
        => ~(inflight[v].status = 200 /\ inflight[w].status = 200)

\* C22: at most one Driver record references any given User.
C22_OneDriverPerUser ==
    \A u \in UserIds : Cardinality(DriversOfUser(u)) <= 1

\* the Medic records of user uid
MedicsOfUser(uid) == {m \in DOMAIN medics : medics[m].user = uid}

\* worker w stops in this step, between the two writes of its handler
Stops(w) == inflight[w].pc \in {"roleSaved", "roleReverted"} /\ inflight'[w].pc = "crashed"

C27_StatusGuards ==
    [][(/\ req'.op \in {"approve", "revoke", "patchStatus"}
        /\ req'.cred \in tokens
        /\ IsDispatcher(req'.cred)
        /\ req'.id \in DOMAIN incidents)
       => LET now == incidents[req'.id].status
          IN /\ req'.op = "approve"
                => /\ resp'.status = 400 <=> now = "dispatched"
                   /\ now # "dispatched"
                      => /\ resp'.status = 200
                         /\ incidents'[req'.id].status = "dispatched"
             /\ req'.op = "revoke"
                => (resp'.status = 400 <=> now = "request-denied")
             /\ (req'.op = "patchStatus" /\ req'.body.status # "")
                => /\ resp'.status = 200
                   /\ incidents'[req'.id].status = req'.body.status]_vars

\* an incident was resolved before it was ever dispatched, then held
\* "request-denied", and an approve has now made it "dispatched"
C27_Witness ==
    /\ req.op = "approve" /\ resp.status = 200
    /\ req.id \in DOMAIN incidents
    /\ incidents[req.id].status = "dispatched"
    /\ held[req.id] = <<"pending", "resolved", "request-denied", "dispatched">>

====
